---- MODULE Spec2Model ----
(***************************************************************************)
(* A model of uninews_crawler/crawler.py: the keyword filter, the link     *)
(* extractor, the per-site crawl and the orchestrator of                   *)
(* UniversityNewsCrawler.                                                  *)
(*                                                                         *)
(* A text is a sequence of characters.  The alphabet holds one ASCII       *)
(* letter in both cases ("a", "A"), the Greek sigma in its three forms     *)
(* ("sigma", its capital "SIGMA" and the word-final "fsigma"), and one     *)
(* caseless CJK character ("han").                                         *)
(*                                                                         *)
(* A row keeps the fields crawl_site itself sets (university, url,         *)
(* link_text); title, publish_time and content come from _extract_content  *)
(* and crawl_time from the clock, and no step of the crawl reads them.     *)
(* crawl and crawl_site take one step per request or sleep; the responses  *)
(* of the servers are arbitrary at every request.  crawl_site raises where *)
(* its code can raise on the data it reads: urljoin, called outside any    *)
(* try in _extract_links, raises ValueError on a malformed href.           *)
(***************************************************************************)
EXTENDS Integers, Sequences, FiniteSets, TLC

\* ------------------------------------------------------------------ bounds
MaxLen == 3        \* longest text given to the keyword filter
MaxPerSite == 2    \* largest configured max_per_site
MaxRuns == 2       \* crawl() invocations on one crawler object

\* ------------------------------------------------------- program constants
delay_min == 1
delay_max == 3

\* Python's None, as a response of _get and as a text.
None == [none |-> TRUE]
NoneText == <<"None">>

Chars == {"a", "A", "sigma", "SIGMA", "fsigma", "han"}

Min(a, b) == IF a <= b THEN a ELSE b
Max(a, b) == IF a >= b THEN a ELSE b

\* ------------------------------------------------------------- str methods
\* Unicode property Cased: letters that have a case.
IsCased(c) == c \in {"a", "A", "sigma", "SIGMA", "fsigma"}

\* str.lower() of one character outside the capital-sigma rule.
LowerChar(c) == IF c = "A" THEN "a" ELSE c

\* str.lower() maps a capital sigma to the final form when a cased letter
\* precedes it and none follows it (no character of the alphabet is
\* case-ignorable), and to the medial form otherwise.
FinalSigma(text, i) ==
    /\ i > 1
    /\ IsCased(text[i - 1])
    /\ ~(i < Len(text) /\ IsCased(text[i + 1]))

lower(text) ==
    [i \in 1..Len(text) |->
        IF text[i] = "SIGMA"
        THEN (IF FinalSigma(text, i) THEN "fsigma" ELSE "sigma")
        ELSE LowerChar(text[i])]

\* Python's `k in t` on strings.
IsSubstr(k, t) ==
    \E i \in 0..(Len(t) - Len(k)) : SubSeq(t, i + 1, i + Len(k)) = k

\* ----------------------------------------------------------- _contains_kw
contains_kw(text, keywords) ==
    IF text = NoneText \/ text = <<>>
    THEN FALSE
    ELSE \E j \in 1..Len(keywords) : IsSubstr(lower(keywords[j]), lower(text))

\* ---------------------------------------------------------------- inputs
\* self.keywords: one CJK keyword of two characters and one ASCII keyword.
DEFAULT_KEYWORDS == << <<"han", "han">>, <<"a">> >>

\* self.sites: display name -> base URL, in insertion order.
DEFAULT_SITES == << [name |-> "U1", url |-> "b1"], [name |-> "U2", url |-> "b2"] >>

NEWS_LIST_PATTERNS == <<"news/", "article/", "info/", "content/", "xxgg/", "xwdt/">>

\* Anchor texts: two that hold a keyword (one only up to letter case) and
\* one that holds none.
T_COOP == <<"A">>
T_HAN == <<"han", "han">>
T_OTHER == <<"han">>

\* HTML documents a server may answer with: the raw text the keyword gate
\* reads, and the anchors the selector battery NEWS_LINK_SELECTORS matches.
PgEmpty == [text |-> <<>>, anchors |-> {}]
PgPlain ==
    [text |-> <<"sigma">>,
     anchors |-> {[href |-> "n1", text |-> T_COOP],
                  [href |-> "n3", text |-> T_OTHER],
                  [href |-> "javascript:void(0)", text |-> T_COOP],
                  [href |-> "", text |-> T_COOP],
                  [href |-> "n2", text |-> <<>>]}]
PgNews ==
    [text |-> <<"han", "A">>,
     anchors |-> {[href |-> "n1", text |-> T_COOP],
                  [href |-> "n1", text |-> T_HAN],
                  [href |-> "/", text |-> T_HAN]}]
PgBad == [text |-> <<"A">>, anchors |-> {[href |-> "http://[news", text |-> T_COOP]}]
Pages == {PgEmpty, PgPlain, PgNews, PgBad}

\* What _get may return: the response text, or None after a
\* requests.RequestException (connection error, timeout, non-2xx status).
Responses == Pages \cup {None}

\* Arguments crawl() is called with: None, an empty mapping, a one-site mapping.
CrawlArgs ==
    {[none |-> TRUE, map |-> <<>>],
     [none |-> FALSE, map |-> <<>>],
     [none |-> FALSE, map |-> << [name |-> "U2", url |-> "b2"] >>]}

\* ------------------------------------------------------------ URL helpers
\* urllib.parse.urljoin for a root base URL: a URL is <<scheme and host, path>>.
\* A malformed bracketed host makes urljoin raise ValueError.
urljoin_raises(href) == href = "http://[news"

urljoin(base, href) ==
    CASE href = "javascript:void(0)" -> <<"", href>>
      [] href = "/" -> <<base, "">>
      [] OTHER -> <<base, href>>

is_valid_url(url) == url[1] # ""

\* The URLs a crawl of the modelled sites can request.
Urls ==
    {<<DEFAULT_SITES[i].url, p>> :
        i \in 1..Len(DEFAULT_SITES),
        p \in {NEWS_LIST_PATTERNS[k] : k \in 1..Len(NEWS_LIST_PATTERNS)} \cup {"", "n1", "n3"}}

\* _extract_links raises when urljoin raises on a matched anchor with an href.
extract_links_raises(html) ==
    \E a \in html.anchors : a.href # "" /\ urljoin_raises(a.href)

\* _extract_links: the deduplicated (url, text) pairs of the matched anchors
\* that have an href, a valid absolute URL and a visible text.
extract_links(html, base_url) ==
    {<<urljoin(base_url, a.href), a.text>> :
        a \in {b \in html.anchors :
                 /\ b.href # ""
                 /\ is_valid_url(urljoin(base_url, b.href))
                 /\ b.text # <<>>}}

\* `not html`: None and the empty string are both falsy.
Falsy(html) == html = None \/ html.text = <<>>

\* Mutants of the slice: no cap at all; a cap that is one too large.
SliceAll(seq, m) == seq
SliceOneMore(seq, m) == SubSeq(seq, 1, Min(m + 1, Len(seq)))

\* filtered[: max_per_site]
SliceTo(seq, m) ==
    IF m >= 0 THEN SubSeq(seq, 1, Min(m, Len(seq)))
    ELSE SubSeq(seq, 1, Max(Len(seq) + m, 0))

\* The orders in which a set may be listed: list({...}) keeps no order.
Orderings(S) ==
    {f \in [1..Cardinality(S) -> S] : \A i, j \in 1..Cardinality(S) : i # j => f[i] # f[j]}

\* ------------------------------------------------------------------ state
VARIABLES
    max_per_site,  \* cfg.max_per_site
    rows,          \* self.rows
    pc,            \* where the crawler is: "idle", "sites" (the loop of crawl),
                   \* "listing", "home", "filter", "visit", "sleep" (crawl_site)
    runs,          \* crawl() invocations started on this object
    target,        \* crawl: the mapping iterated
    si,            \* crawl: position in target
    pi,            \* crawl_site: position in NEWS_LIST_PATTERNS
    candidates,    \* crawl_site: the candidate pool (read only through a set)
    filtered,      \* crawl_site: the filtered candidates, in list order
    vi,            \* crawl_site: position in filtered[: max_per_site]
    retval,        \* what the last crawl() returned
    \* history, for the properties only
    lastGet,       \* the GET the last step issued, if it issued one
    watched,       \* an arbitrary URL, fixed when crawl() is called
    failed,        \* whether a GET of the watched URL failed in this invocation
    gap,           \* seconds slept since the last candidate GET of this call
    visitLog,      \* outcome of each candidate GET of this crawl_site call
    requested,     \* what this crawl_site call has requested so far, in order
    rowsAtSite,    \* Len(rows) when this crawl_site call began
    rowsAtCall,    \* Len(rows) when this crawl() invocation began
    attempted,     \* positions of target crawl_site was called for
    raised,        \* positions of target whose crawl_site raised
    okCount,       \* per position of target: candidate fetches that succeeded
    \* the keyword filter called on its own
    kw_text, kw_list, kw_done, kw_result

crawlVars ==
    <<max_per_site, rows, pc, runs, target, si, pi, candidates, filtered, vi, retval,
      lastGet, watched, failed, gap, visitLog, requested, rowsAtSite, rowsAtCall, attempted, raised,
      okCount>>
kwVars == <<kw_text, kw_list, kw_done, kw_result>>
vars == <<crawlVars, kwVars>>

NoGet == [url |-> <<"", "">>, resp |-> None, kind |-> "none", pool |-> {}]

\* What a GET is issued for: a listing path, the homepage, or a candidate.
Item(kind, url, text) == [kind |-> kind, url |-> url, text |-> text]
NoRet == <<[university |-> "none", url |-> <<"", "">>, link_text |-> <<>>]>>

\* The state after UniversityNewsCrawler(cfg=cfg): __post_init__ sets rows to [].
InitCrawler ==
    /\ max_per_site \in 0..MaxPerSite
    /\ rows = <<>>
    /\ pc = "idle"
    /\ runs = 0
    /\ target = <<>>
    /\ si = 0
    /\ pi = 0
    /\ candidates = {}
    /\ filtered = <<>>
    /\ vi = 0
    /\ retval = NoRet
    /\ lastGet = NoGet
    /\ watched = <<"", "">>
    /\ failed = FALSE
    /\ gap = 0
    /\ visitLog = <<>>
    /\ requested = <<>>
    /\ rowsAtSite = 0
    /\ rowsAtCall = 0
    /\ attempted = <<>>
    /\ raised = {}
    /\ okCount = <<>>

KwIdle ==
    /\ kw_text = NoneText
    /\ kw_list = <<>>
    /\ kw_done = FALSE
    /\ kw_result = FALSE

Init == InitCrawler /\ KwIdle

\* The locals of crawl_site, dropped when the call ends.
DropLocals ==
    /\ pi' = 0
    /\ candidates' = {}
    /\ filtered' = <<>>
    /\ vi' = 0

Selected == SliceTo(filtered, max_per_site)

\* crawl line 175: target = sites or self.sites
TargetOf(arg) == IF arg.none \/ arg.map = <<>> THEN DEFAULT_SITES ELSE arg.map

\* crawl is called (lines 174-176), at most maxRuns times, with one of args.
Crawl(maxRuns, args) ==
    /\ pc = "idle"
    /\ runs < maxRuns
    /\ \E arg \in args :
        /\ target' = TargetOf(arg)
        /\ okCount' = [i \in 1..Len(TargetOf(arg)) |-> 0]
    /\ runs' = runs + 1
    /\ si' = 1
    /\ pc' = "sites"
    /\ retval' = NoRet
    /\ rowsAtCall' = Len(rows)
    /\ attempted' = <<>>
    /\ raised' = {}
    /\ lastGet' = NoGet
    /\ watched' \in Urls
    /\ failed' = FALSE
    /\ UNCHANGED <<kwVars, max_per_site, rows, pi, candidates, filtered, vi, gap, visitLog,
                   requested, rowsAtSite>>

\* crawl lines 176-178: the next site of the mapping; crawl_site begins (137-138).
CrawlSiteStart ==
    /\ pc = "sites"
    /\ si <= Len(target)
    /\ pc' = "listing"
    /\ pi' = 1
    /\ candidates' = {}
    /\ filtered' = <<>>
    /\ vi' = 0
    /\ attempted' = Append(attempted, si)
    /\ rowsAtSite' = Len(rows)
    /\ visitLog' = <<>>
    /\ requested' = <<>>
    /\ gap' = 0
    /\ lastGet' = NoGet
    /\ UNCHANGED <<kwVars, watched, failed, max_per_site, rows, runs, target, si, retval, rowsAtCall, raised,
                   okCount>>

\* crawl line 181: the loop is over, self.rows is returned.
CrawlReturn ==
    /\ pc = "sites"
    /\ si > Len(target)
    /\ pc' = "idle"
    /\ retval' = rows
    /\ lastGet' = NoGet
    /\ UNCHANGED <<kwVars, watched, failed, max_per_site, rows, runs, target, si, pi, candidates, filtered, vi,
                   gap, visitLog, requested, rowsAtSite, rowsAtCall, attempted, raised,
                   okCount>>

\* Mutant: the exception ends the loop over the sites.
AfterErrorAbort(i, n) == n + 1

\* crawl lines 179-180: the position the loop goes on with after crawl_site
\* raised at position i of a mapping of n sites.
AfterError(i, n) == i + 1

\* An exception leaves crawl_site and is caught by crawl.
Caught ==
    /\ raised' = raised \cup {si}
    /\ si' = AfterError(si, Len(target))
    /\ pc' = "sites"
    /\ DropLocals

\* Lines 145-146 and 150-151: the links a fetched page adds to the pool.
ListingLinks(html, base_url) ==
    IF ~Falsy(html) /\ contains_kw(html.text, DEFAULT_KEYWORDS)
    THEN extract_links(html, base_url) ELSE {}
HomeLinks(html, base_url) ==
    IF ~Falsy(html) THEN extract_links(html, base_url) ELSE {}

\* crawl_site lines 141-146: one listing path is fetched.
ListingGet ==
    /\ pc = "listing"
    /\ \E resp \in Responses :
        LET base_url == target[si].url
            url == urljoin(base_url, NEWS_LIST_PATTERNS[pi])
        IN  /\ lastGet' = [url |-> url, resp |-> resp, kind |-> "listing",
                            pool |-> candidates]
            /\ failed' = (failed \/ (url = watched /\ resp = None))
            /\ requested' = Append(requested, Item("listing", url, <<>>))
            /\ IF /\ ~Falsy(resp)
                  /\ contains_kw(resp.text, DEFAULT_KEYWORDS)
                  /\ extract_links_raises(resp)
               THEN Caught
               ELSE /\ candidates' = candidates \cup ListingLinks(resp, base_url)
                    /\ IF pi < Len(NEWS_LIST_PATTERNS)
                       THEN pi' = pi + 1 /\ pc' = "listing"
                       ELSE pi' = pi /\ pc' = "home"
                    /\ UNCHANGED <<si, raised, filtered, vi>>
    /\ UNCHANGED <<kwVars, watched, max_per_site, rows, runs, target, retval, gap, visitLog, rowsAtSite,
                   rowsAtCall, attempted, okCount>>

\* crawl_site lines 149-151: the homepage is fetched.
HomeGet ==
    /\ pc = "home"
    /\ \E resp \in Responses :
        LET base_url == target[si].url
        IN  /\ lastGet' = [url |-> <<base_url, "">>, resp |-> resp, kind |-> "home",
                            pool |-> candidates]
            /\ failed' = (failed \/ (<<base_url, "">> = watched /\ resp = None))
            /\ requested' = Append(requested, Item("home", <<base_url, "">>, <<>>))
            /\ IF ~Falsy(resp) /\ extract_links_raises(resp)
               THEN Caught
               ELSE /\ candidates' = candidates \cup HomeLinks(resp, base_url)
                    /\ pc' = "filter"
                    /\ UNCHANGED <<si, raised, pi, filtered, vi>>
    /\ UNCHANGED <<kwVars, watched, max_per_site, rows, runs, target, retval, gap, visitLog, rowsAtSite,
                   rowsAtCall, attempted, okCount>>

\* Mutant: the anchor text is not tested.
RelevantAll(uniq) == uniq

\* crawl_site line 155: the candidates kept.
Relevant(uniq) == {c \in uniq : contains_kw(c[2], DEFAULT_KEYWORDS)}

\* crawl_site lines 154-156: deduplicate, filter by anchor text.
Filter ==
    /\ pc = "filter"
    /\ filtered' \in Orderings(Relevant(candidates))
    /\ vi' = 1
    /\ pc' = "visit"
    /\ lastGet' = NoGet
    /\ UNCHANGED <<kwVars, watched, failed, max_per_site, rows, runs, target, si, pi, candidates, retval, gap,
                   visitLog, requested, rowsAtSite, rowsAtCall, attempted, raised, okCount>>

\* Mutants: a failed fetch ends the loop (break for continue); a failed fetch
\* is tried again.
AfterFailedFetchBreak(i) == Len(filtered) + 1
AfterFailedFetchRetry(i) == i

\* crawl_site lines 160-161: the position the loop goes on with after the
\* fetch of candidate i failed.
AfterFailedFetch(i) == i + 1

\* crawl_site lines 158-171: one selected candidate is fetched; a row is
\* appended when the fetch gave content.
VisitGet ==
    /\ pc = "visit"
    /\ vi <= Len(Selected)
    /\ \E resp \in Responses :
        LET url == filtered[vi][1]
            link_text == filtered[vi][2]
        IN  /\ lastGet' = [url |-> url, resp |-> resp, kind |-> "article",
                            pool |-> candidates]
            /\ requested' = Append(requested, Item("article", url, link_text))
            /\ failed' = (failed \/ (url = watched /\ resp = None))
            /\ visitLog' = Append(visitLog, [cand |-> filtered[vi], ok |-> ~Falsy(resp)])
            /\ IF Falsy(resp)
               THEN /\ vi' = AfterFailedFetch(vi)
                    /\ pc' = "visit"
                    /\ UNCHANGED <<rows, okCount>>
               ELSE /\ rows' = Append(rows, [university |-> target[si].name,
                                             url |-> url, link_text |-> link_text])
                    /\ okCount' = [okCount EXCEPT ![si] = @ + 1]
                    /\ pc' = "sleep"
                    /\ vi' = vi
    /\ gap' = 0
    /\ UNCHANGED <<kwVars, watched, max_per_site, runs, target, si, pi, candidates, filtered, retval,
                   rowsAtSite, rowsAtCall, attempted, raised>>

\* crawl_site line 172: time.sleep(random.uniform(delay_min, delay_max)).
Sleep ==
    /\ pc = "sleep"
    /\ gap' \in delay_min..delay_max
    /\ vi' = vi + 1
    /\ pc' = "visit"
    /\ lastGet' = NoGet
    /\ UNCHANGED <<kwVars, watched, failed, max_per_site, rows, runs, target, si, pi, candidates, filtered, retval,
                   visitLog, requested, rowsAtSite, rowsAtCall, attempted, raised, okCount>>

\* The loop of line 158 is over: crawl_site returns to crawl.
CrawlSiteReturn ==
    /\ pc = "visit"
    /\ vi > Len(Selected)
    /\ pc' = "sites"
    /\ si' = si + 1
    /\ DropLocals
    /\ lastGet' = NoGet
    /\ UNCHANGED <<kwVars, watched, failed, max_per_site, rows, runs, target, retval, gap, visitLog, requested,
                   rowsAtSite, rowsAtCall, attempted, raised, okCount>>

\* One crawl() per crawler object, as cli.main runs it.
Next ==
    \/ Crawl(1, CrawlArgs)
    \/ CrawlSiteStart
    \/ CrawlReturn
    \/ ListingGet
    \/ HomeGet
    \/ Filter
    \/ VisitGet
    \/ Sleep
    \/ CrawlSiteReturn

Spec == Init /\ [][Next]_vars

\* crawl() called again on the same object, each time with a one-site mapping.
NextAgain ==
    \/ Crawl(MaxRuns, {a \in CrawlArgs : Len(a.map) = 1})
    \/ CrawlSiteStart
    \/ CrawlReturn
    \/ ListingGet
    \/ HomeGet
    \/ Filter
    \/ VisitGet
    \/ Sleep
    \/ CrawlSiteReturn

SpecAgain == Init /\ [][NextAgain]_vars

\* ------------------------------------------------- the keyword filter alone
\* Texts of at most n characters.
TextsUpTo(n) == UNION {[1..k -> Chars] : k \in 0..n}

\* Keyword lists the filter is configured with: at most two keywords.
KwPool == {<<>>, <<"a">>, <<"A">>, <<"han", "han">>, <<"a", "sigma">>, <<"SIGMA">>}
KwLists == {<<>>} \cup {<<k>> : k \in KwPool} \cup {<<k1, k2>> : k1 \in KwPool, k2 \in KwPool}

InitKw ==
    /\ InitCrawler
    /\ max_per_site = 0
    /\ kw_text \in TextsUpTo(MaxLen) \cup {NoneText}
    /\ kw_list \in KwLists
    /\ kw_done = FALSE
    /\ kw_result = FALSE

\* _contains_kw(text) is called on a crawler whose keywords are kw_list.
ContainsKwCall ==
    /\ ~kw_done
    /\ kw_result' = contains_kw(kw_text, kw_list)
    /\ kw_done' = TRUE
    /\ UNCHANGED <<crawlVars, kw_text, kw_list>>

NextKw == ContainsKwCall

SpecKw == InitKw /\ [][NextKw]_vars

\* ================================================================ properties
\* The Keyword Filter, as the specification words it.
MatchesFilter(text, keywords) ==
    /\ text # NoneText
    /\ Len(text) > 0
    /\ \E j \in 1..Len(keywords) : IsSubstr(lower(keywords[j]), lower(text))

\* The same text in capital letters (Python's str.upper()).
UpperChar(c) ==
    CASE c = "a" -> "A"
      [] c \in {"sigma", "fsigma"} -> "SIGMA"
      [] OTHER -> c
upper(text) == [i \in 1..Len(text) |-> UpperChar(text[i])]

\* The rows the current crawl_site call has appended.
SiteRows == SubSeq(rows, rowsAtSite + 1, Len(rows))

\* The candidate loop of the current crawl_site call is over.
LoopDone == pc = "visit" /\ vi > Len(Selected)

Failures(log) == {i \in 1..Len(log) : ~log[i].ok}

UpTo(n) == [i \in 1..n |-> i]

RECURSIVE SumSeq(_)
SumSeq(q) == IF q = <<>> THEN 0 ELSE q[1] + SumSeq(Tail(q))

\* C1: a crawl_site call appends at most max_per_site rows, and exactly
\* max_per_site when the deduplicated, keyword-filtered candidate set has at
\* least that many entries and every candidate fetch gave non-empty text.
C1_CapRespected ==
    /\ Len(rows) - rowsAtSite <= max_per_site
    /\ ( /\ LoopDone
         /\ Cardinality({c \in candidates : MatchesFilter(c[2], DEFAULT_KEYWORDS)})
                >= max_per_site
         /\ \A i \in 1..Len(visitLog) : visitLog[i].ok )
       => Len(rows) - rowsAtSite = max_per_site

C1_Witness ==
    /\ LoopDone
    /\ max_per_site = 2
    /\ Len(filtered) = 3
    /\ Len(SiteRows) = 2

\* C2: when crawl_site raises for a site the error is caught, every site of
\* the mapping is still attempted in order, crawl is never stuck before it
\* returns, and the returned sequence holds, for each site, one row per
\* candidate fetch that succeeded.
C2_OrchestratorIsolation ==
    /\ pc = "sites" => attempted = UpTo(si - 1)
    /\ pc # "idle" => ENABLED Next
    /\ (pc = "idle" /\ runs > 0) =>
        /\ attempted = UpTo(Len(target))
        /\ \A i \in 1..Len(target) :
            Cardinality({k \in (rowsAtCall + 1)..Len(retval) :
                            retval[k].university = target[i].name}) = okCount[i]

C2_Witness ==
    /\ pc = "idle"
    /\ runs > 0
    /\ Len(target) = 2
    /\ raised = {1}
    /\ attempted = <<1, 2>>
    /\ \E k \in 1..Len(retval) : retval[k].university = target[2].name

\* C3: a candidate whose fetch gives no content yields no row and does not
\* end the site: every selected candidate is fetched, and the site's rows are
\* exactly those of the candidates whose fetch gave content, in order.
C3_FetchFailureNotFatal ==
    /\ pc = "visit" => Len(visitLog) = vi - 1
    /\ LoopDone =>
        /\ Len(visitLog) = Len(Selected)
        /\ \A i \in 1..Len(visitLog) : visitLog[i].cand = Selected[i]
        /\ LET okLog == SelectSeq(visitLog, LAMBDA e : e.ok)
           IN  SiteRows = [i \in 1..Len(okLog) |->
                              [university |-> target[si].name,
                               url |-> okLog[i].cand[1],
                               link_text |-> okLog[i].cand[2]]]

C3_Witness ==
    /\ LoopDone
    /\ Len(visitLog) = 2
    /\ ~visitLog[1].ok
    /\ visitLog[2].ok
    /\ Len(SiteRows) = 1

\* C4 as claimed: within one crawl() invocation no GET is issued for a URL
\* whose earlier GET failed (the watched URL is any URL).
C4_NoGetAfterFailure ==
    [][lastGet'.kind # "none" => ~(failed /\ lastGet'.url = watched)]_vars

\* C4 as amended: within one crawl_site call nothing is requested twice: each
\* listing path, the homepage and each selected (url, anchor text) candidate
\* gets at most one GET, failed or not.
C4_NoRepeatedItem ==
    /\ \A i, j \in 1..Len(requested) : i # j => requested[i] # requested[j]
    /\ Len(requested) <= Len(NEWS_LIST_PATTERNS) + 1 + max_per_site

C4_Witness ==
    /\ Len(visitLog) = 2
    /\ visitLog[1].cand[1] = visitLog[2].cand[1]
    /\ visitLog[1].cand[1] = watched
    /\ failed
    /\ ~visitLog[1].ok

\* C5: between two consecutive candidate fetches of one crawl_site call a
\* sleep of delay_min to delay_max seconds occurs, whether the earlier fetch
\* succeeded or failed.
C5_DelayBetweenFetches ==
    [][(lastGet'.kind = "article" /\ Len(visitLog) >= 1)
          => gap \in delay_min..delay_max]_vars

\* C6: every crawl() invocation starts from an empty row sequence and returns
\* only rows produced during that invocation.
C6_InvocationStartsEmpty ==
    /\ rowsAtCall = 0
    /\ (pc = "idle" /\ runs > 0) => Len(retval) = SumSeq(okCount)

\* C7: every row's link_text matches the Keyword Filter.
C7_RelevanceGate ==
    \A i \in 1..Len(rows) : MatchesFilter(rows[i].link_text, DEFAULT_KEYWORDS)

C7_Witness ==
    /\ pc = "sleep"
    /\ \E c \in candidates : ~MatchesFilter(c[2], DEFAULT_KEYWORDS)
    /\ \E i \in (rowsAtSite + 1)..Len(rows) : rows[i].link_text = T_COOP

\* C8: _contains_kw is true iff the text is non-empty and some lower-cased
\* keyword is a substring of the lower-cased text, false for empty or absent
\* text, and the same whatever the letter case of the text and the keywords.
C8_KeywordFilter ==
    kw_done =>
        /\ kw_result = MatchesFilter(kw_text, kw_list)
        /\ kw_text \in {NoneText, <<>>} => ~kw_result
        /\ kw_text # NoneText =>
            /\ kw_result = contains_kw(upper(kw_text), kw_list)
            /\ kw_result = contains_kw(lower(kw_text), kw_list)
            /\ kw_result = contains_kw(kw_text, [j \in 1..Len(kw_list) |-> upper(kw_list[j])])
            /\ kw_result = contains_kw(kw_text, [j \in 1..Len(kw_list) |-> lower(kw_list[j])])

\* The discovery requests of a crawl_site call for base_url, in order.
Discovery(base_url) ==
    [k \in 1..(Len(NEWS_LIST_PATTERNS) + 1) |->
        IF k <= Len(NEWS_LIST_PATTERNS)
        THEN Item("listing", <<base_url, NEWS_LIST_PATTERNS[k]>>, <<>>)
        ELSE Item("home", <<base_url, "">>, <<>>)]

\* The call has made exactly these requests first.
DiscoveryDone(base_url) ==
    /\ Len(requested) >= Len(NEWS_LIST_PATTERNS) + 1
    /\ SubSeq(requested, 1, Len(NEWS_LIST_PATTERNS) + 1) = Discovery(base_url)

\* C9: every crawl_site call fetches the six listing URLs and then the
\* homepage; a listing page's links enter the pool only if its fetch succeeded
\* and its text matches the Keyword Filter, the homepage's whenever its fetch
\* succeeded.
C9_TwoPhaseDiscovery ==
    /\ (pc = "sites" /\ si > 1) => DiscoveryDone(target[si - 1].url)
    /\ pc \in {"filter", "visit", "sleep"} => DiscoveryDone(target[si].url)
    /\ (lastGet.kind = "listing" /\ pc \in {"listing", "home"}) =>
        candidates = lastGet.pool \cup
            (IF lastGet.resp # None /\ MatchesFilter(lastGet.resp.text, DEFAULT_KEYWORDS)
             THEN extract_links(lastGet.resp, target[si].url) ELSE {})
    /\ (lastGet.kind = "home" /\ pc = "filter") =>
        candidates = lastGet.pool \cup
            (IF lastGet.resp # None
             THEN extract_links(lastGet.resp, target[si].url) ELSE {})

\* C10: the cap bounds the candidate GETs, not the rows: at most max_per_site
\* GETs, for the first max_per_site filtered candidates only, and the site
\* yields one row per GET that did not fail.
C10_CapBoundsAttempts ==
    pc \in {"visit", "sleep"} =>
        /\ Len(visitLog) <= max_per_site
        /\ \A i \in 1..Len(visitLog) : i <= Len(filtered) /\ visitLog[i].cand = filtered[i]
        /\ Len(SiteRows) = Len(visitLog) - Cardinality(Failures(visitLog))
        /\ LoopDone => Len(visitLog) = Min(max_per_site, Len(filtered))

C10_Witness ==
    /\ LoopDone
    /\ max_per_site >= 1
    /\ Len(filtered) > max_per_site
    /\ Len(visitLog) = max_per_site
    /\ Failures(visitLog) # {}
    /\ Len(SiteRows) < max_per_site

====
